---- MODULE Spec2Model ----
(***************************************************************************)
(* UAE transfer-pricing relationship assessment (src/main.py).             *)
(*                                                                         *)
(* The decision core is TPRelationshipAssessor.assess_relationship and the *)
(* six analyzers it composes.  Party records are Python dicts read with    *)
(* .get(key, default): they are modelled as functions whose DOMAIN is the  *)
(* set of keys present, so an absent key and a key holding the default are *)
(* different inputs.                                                       *)
(*                                                                         *)
(* Representation choices:                                                 *)
(*  - the `type` string is a sequence of one-character strings, so that    *)
(*    str.upper() is computed character by character;                      *)
(*  - revenue figures exceed 32 bits, so an amount is <<millions, rest>>   *)
(*    with rest < 1,000,000 and >= compares the pairs lexicographically;   *)
(*  - Python lists are sequences; dicts whose iteration order matters      *)
(*    carry their insertion order as a sequence of keys.                   *)
(***************************************************************************)
EXTENDS Integers, Sequences, FiniteSets, TLC

VARIABLES
    party1,          \* first input record held by the caller
    party2,          \* second input record held by the caller
    result,          \* record returned by the latest assess_relationship call
    CONFIG,          \* module-level configuration dict
    family_degrees,  \* FamilyRelationshipAnalyzer.family_degrees of the assessor
    assessors,       \* number of TPRelationshipAssessor objects constructed
    calls            \* number of assess_relationship calls made

vars == <<party1, party2, result, CONFIG, family_degrees, assessors, calls>>

-----------------------------------------------------------------------------
(* Bounds *)

MaxLayers == 4
MaxCalls == 2
MaxAssessors == 2

-----------------------------------------------------------------------------
(* Python dict / list / str / int helpers *)

EmptyDict == [k \in {} |-> 0]

\* dict.get(key, default)
Get(d, k, default) == IF k \in DOMAIN d THEN d[k] ELSE default

\* x in list
InList(x, list) == \E i \in 1..Len(list) : list[i] = x

\* list.append(x) under a condition
AppendIf(list, cond, x) == IF cond THEN Append(list, x) ELSE list

LowerCase == <<"a","b","c","d","e","f","g","h","i","j","k","l","m",
               "n","o","p","q","r","s","t","u","v","w","x","y","z">>
UpperCase == <<"A","B","C","D","E","F","G","H","I","J","K","L","M",
               "N","O","P","Q","R","S","T","U","V","W","X","Y","Z">>

UpperChar(c) ==
    IF \E i \in 1..Len(LowerCase) : LowerCase[i] = c
    THEN UpperCase[CHOOSE i \in 1..Len(LowerCase) : LowerCase[i] = c]
    ELSE c

\* str.upper()
Upper(s) == [i \in 1..Len(s) |-> UpperChar(s[i])]

\* string literals used for the `type` field
S_EMPTY == << >>
S_INDIVIDUAL == <<"I","N","D","I","V","I","D","U","A","L">>
S_CORPORATE == <<"C","O","R","P","O","R","A","T","E">>
S_PERMANENT_ESTABLISHMENT ==
    <<"P","E","R","M","A","N","E","N","T","_",
      "E","S","T","A","B","L","I","S","H","M","E","N","T">>

\* amounts: <<millions, rest>>
Amt(m, u) == <<m, u>>
ZeroAmt == Amt(0, 0)
AmtGE(a, b) == a[1] > b[1] \/ (a[1] = b[1] /\ a[2] >= b[2])

-----------------------------------------------------------------------------
(* 2. Configuration constants *)

CONFIG_DICT ==
    [ OWNERSHIP_THRESHOLD |-> 50,
      CONTROL_THRESHOLD |-> 50,
      MAX_FAMILY_DEGREE |-> 4,
      DOCUMENTATION_THRESHOLDS |->
          [ REVENUE |-> Amt(200, 0),
            MNE_GROUP_CONSOLIDATED |-> Amt(3150, 0) ] ]

-----------------------------------------------------------------------------
(* 3. FamilyRelationshipAnalyzer *)

\* self.family_degrees as built by __init__, in insertion order
FAMILY_DEGREES ==
    << [deg |-> 1, relations |-> <<"parent", "child", "spouse_parent", "spouse_child">>],
       [deg |-> 2, relations |-> <<"grandparent", "grandchild", "sibling", "spouse_sibling">>],
       [deg |-> 3, relations |-> <<"great_grandparent", "great_grandchild",
                                   "uncle", "aunt", "niece", "nephew">>],
       [deg |-> 4, relations |-> <<"great_great_grandparent",
                                   "great_great_grandchild", "first_cousin">>] >>

RECURSIVE degree_scan(_, _, _)
degree_scan(items, relationship_type, i) ==
    IF i > Len(items) THEN 999
    ELSE IF InList(relationship_type, items[i].relations) THEN items[i].deg
    ELSE degree_scan(items, relationship_type, i + 1)

calculate_degree(relationship_type) ==
    degree_scan(family_degrees, relationship_type, 1)

\* variant: the label is also looked up on the second person
Family_assess_relationship_symmetric(person1, person2) ==
    LET relationship_type == Get(person1, "relationship_type", "")
        degree1 == calculate_degree(relationship_type)
        degree2 == calculate_degree(Get(person2, "relationship_type", ""))
        degree == IF degree2 < degree1 THEN degree2 ELSE degree1
        is_related == IF degree # 0 THEN degree <= CONFIG.MAX_FAMILY_DEGREE ELSE FALSE
    IN  [ isRelatedParty |-> is_related,
          degree |-> degree,
          relationshipType |-> relationship_type,
          basis |-> IF is_related
                    THEN "Family relationship - " \o ToString(degree) \o " degree"
                    ELSE "No family relation within 4th degree" ]


Family_assess_relationship(person1, person2) ==
    LET relationship_type == Get(person1, "relationship_type", "")
        degree == calculate_degree(relationship_type)
        is_related == IF degree # 0 THEN degree <= CONFIG.MAX_FAMILY_DEGREE ELSE FALSE
    IN  [ isRelatedParty |-> is_related,
          degree |-> degree,
          relationshipType |-> relationship_type,
          basis |-> IF is_related
                    THEN "Family relationship - " \o ToString(degree) \o " degree"
                    ELSE "No family relation within 4th degree" ]

-----------------------------------------------------------------------------
(* 4. CorporateRelationshipAnalyzer *)

\* variant: the totals must exceed the threshold strictly
analyze_ownership_strict(entity1, entity2) ==
    LET total_ownership_1 == Get(Get(entity1, "ownership", EmptyDict), "direct", 0)
                             + Get(Get(entity1, "ownership", EmptyDict), "indirect", 0)
        total_ownership_2 == Get(Get(entity2, "ownership", EmptyDict), "direct", 0)
                             + Get(Get(entity2, "ownership", EmptyDict), "indirect", 0)
    IN  [ isRelated |-> \/ total_ownership_1 > CONFIG.OWNERSHIP_THRESHOLD
                        \/ total_ownership_2 > CONFIG.OWNERSHIP_THRESHOLD,
          entity1_total_ownership |-> total_ownership_1,
          entity2_total_ownership |-> total_ownership_2,
          basis |-> "Ownership >= 50%" ]


analyze_ownership(entity1, entity2) ==
    LET direct_ownership_1 == Get(Get(entity1, "ownership", EmptyDict), "direct", 0)
        indirect_ownership_1 == Get(Get(entity1, "ownership", EmptyDict), "indirect", 0)
        total_ownership_1 == direct_ownership_1 + indirect_ownership_1
        direct_ownership_2 == Get(Get(entity2, "ownership", EmptyDict), "direct", 0)
        indirect_ownership_2 == Get(Get(entity2, "ownership", EmptyDict), "indirect", 0)
        total_ownership_2 == direct_ownership_2 + indirect_ownership_2
        is_related_1 == total_ownership_1 >= CONFIG.OWNERSHIP_THRESHOLD
        is_related_2 == total_ownership_2 >= CONFIG.OWNERSHIP_THRESHOLD
    IN  [ isRelated |-> is_related_1 \/ is_related_2,
          entity1_total_ownership |-> total_ownership_1,
          entity2_total_ownership |-> total_ownership_2,
          basis |-> "Ownership >= 50%" ]

analyze_control(entity1, entity2) ==
    LET entity1_voting == Get(entity1, "votingRights", 0)
        entity2_voting == Get(entity2, "votingRights", 0)
        entity1_profit == Get(entity1, "profitEntitlement", 0)
        entity2_profit == Get(entity2, "profitEntitlement", 0)
        is_related_1 == (entity1_voting >= CONFIG.CONTROL_THRESHOLD)
                        \/ (entity1_profit >= CONFIG.CONTROL_THRESHOLD)
        is_related_2 == (entity2_voting >= CONFIG.CONTROL_THRESHOLD)
                        \/ (entity2_profit >= CONFIG.CONTROL_THRESHOLD)
    IN  [ isRelated |-> is_related_1 \/ is_related_2,
          entity1_voting |-> entity1_voting,
          entity2_voting |-> entity2_voting,
          entity1_profit |-> entity1_profit,
          entity2_profit |-> entity2_profit,
          basis |-> "Control through voting rights or profit entitlement >= 50%" ]

analyze_management(entity1, entity2) ==
    LET entity1_control == Get(entity1, "managementControl", 0)
        entity2_control == Get(entity2, "managementControl", 0)
        is_related_1 == entity1_control >= CONFIG.CONTROL_THRESHOLD
        is_related_2 == entity2_control >= CONFIG.CONTROL_THRESHOLD
    IN  [ isRelated |-> is_related_1 \/ is_related_2,
          entity1_management_control |-> entity1_control,
          entity2_management_control |-> entity2_control,
          basis |-> "Management control >= 50%" ]

\* insertion order of the "relationships" dict
RelationshipKeys == <<"ownership", "control", "management">>

Corporate_assess_relationship(entity1, entity2) ==
    LET ownership_analysis == analyze_ownership(entity1, entity2)
        control_analysis == analyze_control(entity1, entity2)
        management_analysis == analyze_management(entity1, entity2)
    IN  [ isRelatedParty |-> \/ ownership_analysis.isRelated
                             \/ control_analysis.isRelated
                             \/ management_analysis.isRelated,
          relationships |-> [ ownership |-> ownership_analysis,
                              control |-> control_analysis,
                              management |-> management_analysis ] ]

\* for k, v in relationships.items(): if v["isRelated"]: basis.append(v["basis"])
RECURSIVE append_related(_, _, _)
append_related(basis, relationships, i) ==
    IF i > Len(RelationshipKeys) THEN basis
    ELSE LET v == relationships[RelationshipKeys[i]]
         IN  append_related(AppendIf(basis, v.isRelated, v.basis), relationships, i + 1)

-----------------------------------------------------------------------------
(* 5. ConnectedPersonAnalyzer *)

check_directorship(person, entity) ==
    LET is_director == Get(person, "isDirector", FALSE)
        is_connected == is_director
    IN  [ isConnected |-> is_connected,
          basis |-> IF is_connected THEN "Director relationship" ELSE "" ]

check_officer(person, entity) ==
    LET is_officer == Get(person, "isOfficer", FALSE)
        is_connected == is_officer
    IN  [ isConnected |-> is_connected,
          basis |-> IF is_connected THEN "Officer relationship" ELSE "" ]

check_ownership(person, entity) ==
    LET personal_ownership == Get(person, "personalOwnership", 0)
        family_ownership == Get(person, "familyOwnership", 0)
        combined_ownership == personal_ownership + family_ownership
        is_connected == combined_ownership >= CONFIG.OWNERSHIP_THRESHOLD
    IN  [ isConnected |-> is_connected,
          basis |-> IF is_connected THEN "Ownership >= 50%" ELSE "" ]

\* variant: the officer basis is appended before the director basis
assess_connection_officer_first(person, entity) ==
    LET directorship_test == check_directorship(person, entity)
        officer_test == check_officer(person, entity)
        ownership_test == check_ownership(person, entity)
        is_connected == \/ directorship_test.isConnected
                        \/ officer_test.isConnected
                        \/ ownership_test.isConnected
        basis1 == AppendIf(<< >>, officer_test.isConnected, officer_test.basis)
        basis2 == AppendIf(basis1, directorship_test.isConnected, directorship_test.basis)
        basis3 == AppendIf(basis2, ownership_test.isConnected, ownership_test.basis)
    IN  [ isConnectedPerson |-> is_connected, basis |-> basis3 ]


assess_connection(person, entity) ==
    LET directorship_test == check_directorship(person, entity)
        officer_test == check_officer(person, entity)
        ownership_test == check_ownership(person, entity)
        is_connected == \/ directorship_test.isConnected
                        \/ officer_test.isConnected
                        \/ ownership_test.isConnected
        basis0 == << >>
        basis1 == AppendIf(basis0, directorship_test.isConnected, directorship_test.basis)
        basis2 == AppendIf(basis1, officer_test.isConnected, officer_test.basis)
        basis3 == AppendIf(basis2, ownership_test.isConnected, ownership_test.basis)
    IN  [ isConnectedPerson |-> is_connected, basis |-> basis3 ]

-----------------------------------------------------------------------------
(* 6. SpecialEntityAnalyzer *)

\* entity.get("type") with no default: None when absent, modelled as a
\* value different from every string
NoneType == <<"None">>

\* variant: the rule also fires with the establishment as the first party
assess_permanent_establishment_either_order(entity1, entity2) ==
    \/ /\ Get(entity1, "type", NoneType) = S_CORPORATE
       /\ Get(entity2, "type", NoneType) = S_PERMANENT_ESTABLISHMENT
    \/ /\ Get(entity2, "type", NoneType) = S_CORPORATE
       /\ Get(entity1, "type", NoneType) = S_PERMANENT_ESTABLISHMENT


assess_permanent_establishment(entity1, entity2) ==
    /\ Get(entity1, "type", NoneType) = S_CORPORATE
    /\ Get(entity2, "type", NoneType) = S_PERMANENT_ESTABLISHMENT

assess_partnership(entity1, entity2) ==
    /\ Get(entity1, "companyType", "None") = "Partnership"
    /\ Get(entity2, "companyType", "None") = "Partnership"

assess_trust_foundation(entity1, entity2) ==
    \/ InList(Get(entity1, "companyType", "None"), <<"Trust", "Foundation">>)
    \/ InList(Get(entity2, "companyType", "None"), <<"Trust", "Foundation">>)

-----------------------------------------------------------------------------
(* 7. RiskAnalyzer *)

\* variant: three layers already count as the top complexity score
assess_complexity_from_three(relationship_data) ==
    LET layers == Get(relationship_data, "layersOfOwnership", 1)
    IN  IF layers >= 3 THEN 3
        ELSE IF layers = 2 THEN 2
        ELSE 1


assess_complexity(relationship_data) ==
    LET layers == Get(relationship_data, "layersOfOwnership", 1)
    IN  IF layers > 3 THEN 3
        ELSE IF layers = 3 THEN 2
        ELSE 1

analyze_risk(relationship_data) ==
    LET complexity_score == assess_complexity(relationship_data)
        cross_border == Get(relationship_data, "crossBorder", FALSE)
        high_value == Get(relationship_data, "highValueTransactions", FALSE)
        risk_level == IF complexity_score >= 3 \/ cross_border \/ high_value THEN "HIGH"
                      ELSE IF complexity_score = 2 THEN "MEDIUM"
                      ELSE "LOW"
    IN  [ riskLevel |-> risk_level,
          factors |-> [ complexityScore |-> complexity_score,
                        crossBorder |-> cross_border,
                        highValueTransactions |-> high_value ] ]

-----------------------------------------------------------------------------
(* 8. DocumentationAnalyzer *)

is_master_file_required(entity) ==
    LET group_revenue == Get(entity, "groupConsolidatedRevenue", ZeroAmt)
    IN  AmtGE(group_revenue, CONFIG.DOCUMENTATION_THRESHOLDS.MNE_GROUP_CONSOLIDATED)

\* variant: revenue must exceed the threshold strictly
is_local_file_required_strict(entity) ==
    LET revenue == Get(entity, "revenue", ZeroAmt)
    IN  ~AmtGE(CONFIG.DOCUMENTATION_THRESHOLDS.REVENUE, revenue)


is_local_file_required(entity) ==
    LET revenue == Get(entity, "revenue", ZeroAmt)
    IN  AmtGE(revenue, CONFIG.DOCUMENTATION_THRESHOLDS.REVENUE)

is_disclosure_required(relationship) ==
    Get(relationship, "isRelatedParty", FALSE)

determine_requirements(entity, relationship, risk_assessment) ==
    LET master_file_req == is_master_file_required(entity)
        local_file_req == is_local_file_required(entity)
        disclosure_form_req == is_disclosure_required(relationship)
        additional_docs ==
            AppendIf(<< >>, risk_assessment.riskLevel = "HIGH",
                     "Detailed Intercompany Agreement Documentation")
    IN  [ masterFile |-> master_file_req,
          localFile |-> local_file_req,
          disclosureForm |-> disclosure_form_req,
          additionalDocs |-> additional_docs ]

-----------------------------------------------------------------------------
(* 9. TPRelationshipAssessor *)

\* variant: the basis list is shared between calls instead of created per call
InitialResult_shared_basis ==
    [ isRelatedParty |-> FALSE,
      isConnectedPerson |-> FALSE,
      basis |-> IF calls > 0 THEN result.basis ELSE << >>,
      specialCases |-> << >>,
      riskAssessment |-> EmptyDict,
      documentationRequired |-> EmptyDict ]

\* the result dict as created at the top of assess_relationship
InitialResult ==
    [ isRelatedParty |-> FALSE,
      isConnectedPerson |-> FALSE,
      basis |-> << >>,
      specialCases |-> << >>,
      riskAssessment |-> EmptyDict,
      documentationRequired |-> EmptyDict ]

\* variant: only the ownership basis is appended
merge_corporate_ownership_basis_only(r, corp_rel) ==
    IF corp_rel.isRelatedParty
    THEN [r EXCEPT !.isRelatedParty = TRUE,
                   !.basis = AppendIf(@, corp_rel.relationships.ownership.isRelated,
                                      corp_rel.relationships.ownership.basis)]
    ELSE r

\* if corp_rel["isRelatedParty"]: set the flag and append the triggered bases
merge_corporate(r, corp_rel) ==
    IF corp_rel.isRelatedParty
    THEN [r EXCEPT !.isRelatedParty = TRUE,
                   !.basis = append_related(@, corp_rel.relationships, 1)]
    ELSE r

\* variant: the first party is always taken as the person
connected_rel_of_raw_order(p1, p2, party1_type) ==
    assess_connection(p1, p2)

\* the individual is always the person argument of assess_connection
connected_rel_of(p1, p2, party1_type) ==
    IF party1_type = S_INDIVIDUAL
    THEN assess_connection(p1, p2)
    ELSE assess_connection(p2, p1)

\* variant: only the connected person analyzer contributes in this branch
individual_corporate_branch_connected_only(r, p1, p2, party1_type) ==
    LET connected_rel == connected_rel_of(p1, p2, party1_type)
    IN  IF connected_rel.isConnectedPerson
        THEN [r EXCEPT !.isConnectedPerson = TRUE,
                       !.basis = @ \o connected_rel.basis]
        ELSE r

\* body of the INDIVIDUAL / CORPORATE branch
individual_corporate_branch(r, p1, p2, party1_type) ==
    LET connected_rel == connected_rel_of(p1, p2, party1_type)
        corp_analyzer_result == Corporate_assess_relationship(p1, p2)
        r1 == merge_corporate(r, corp_analyzer_result)
    IN  IF connected_rel.isConnectedPerson
        THEN [r1 EXCEPT !.isConnectedPerson = TRUE,
                        !.basis = @ \o connected_rel.basis]
        ELSE r1

\* variant: the corporate branch looks at the first party's type only
dispatch_first_type_only(r, p1, p2) ==
    LET party1_type == Upper(Get(p1, "type", S_EMPTY))
        party2_type == Upper(Get(p2, "type", S_EMPTY))
    IN  IF party1_type = S_INDIVIDUAL /\ party2_type = S_INDIVIDUAL THEN
            LET fam_rel == Family_assess_relationship(p1, p2)
            IN  IF fam_rel.isRelatedParty
                THEN [r EXCEPT !.isRelatedParty = TRUE,
                               !.basis = Append(@, fam_rel.basis)]
                ELSE r
        ELSE IF \/ (party1_type = S_INDIVIDUAL /\ party2_type = S_CORPORATE)
                \/ (party1_type = S_CORPORATE /\ party2_type = S_INDIVIDUAL) THEN
            individual_corporate_branch(r, p1, p2, party1_type)
        ELSE IF party1_type = S_CORPORATE THEN
            merge_corporate(r, Corporate_assess_relationship(p1, p2))
        ELSE r

\* variant: the branches compare the types as given
dispatch_case_sensitive(r, p1, p2) ==
    LET party1_type == Get(p1, "type", S_EMPTY)
        party2_type == Get(p2, "type", S_EMPTY)
    IN  IF party1_type = S_INDIVIDUAL /\ party2_type = S_INDIVIDUAL THEN
            LET fam_rel == Family_assess_relationship(p1, p2)
            IN  IF fam_rel.isRelatedParty
                THEN [r EXCEPT !.isRelatedParty = TRUE,
                               !.basis = Append(@, fam_rel.basis)]
                ELSE r
        ELSE IF party1_type = S_CORPORATE /\ party2_type = S_CORPORATE THEN
            merge_corporate(r, Corporate_assess_relationship(p1, p2))
        ELSE IF \/ (party1_type = S_INDIVIDUAL /\ party2_type = S_CORPORATE)
                \/ (party1_type = S_CORPORATE /\ party2_type = S_INDIVIDUAL) THEN
            individual_corporate_branch(r, p1, p2, party1_type)
        ELSE r

\* the if / elif / elif chain on the upper-cased types
dispatch(r, p1, p2) ==
    LET party1_type == Upper(Get(p1, "type", S_EMPTY))
        party2_type == Upper(Get(p2, "type", S_EMPTY))
    IN  IF party1_type = S_INDIVIDUAL /\ party2_type = S_INDIVIDUAL THEN
            LET fam_rel == Family_assess_relationship(p1, p2)
            IN  IF fam_rel.isRelatedParty
                THEN [r EXCEPT !.isRelatedParty = TRUE,
                               !.basis = Append(@, fam_rel.basis)]
                ELSE r
        ELSE IF party1_type = S_CORPORATE /\ party2_type = S_CORPORATE THEN
            merge_corporate(r, Corporate_assess_relationship(p1, p2))
        ELSE IF \/ (party1_type = S_INDIVIDUAL /\ party2_type = S_CORPORATE)
                \/ (party1_type = S_CORPORATE /\ party2_type = S_INDIVIDUAL) THEN
            individual_corporate_branch(r, p1, p2, party1_type)
        ELSE r

\* variant: the permanent establishment rule compares the upper-cased types
special_entity_checks_upper(r, p1, p2) ==
    LET pe == /\ Upper(Get(p1, "type", S_EMPTY)) = S_CORPORATE
              /\ Upper(Get(p2, "type", S_EMPTY)) = S_PERMANENT_ESTABLISHMENT
        r1 == IF pe
              THEN [r EXCEPT !.isRelatedParty = TRUE,
                             !.specialCases = Append(@, "Permanent Establishment relationship")]
              ELSE r
        r2 == IF assess_partnership(p1, p2)
              THEN [r1 EXCEPT !.isRelatedParty = TRUE,
                              !.specialCases = Append(@, "Partnership relationship")]
              ELSE r1
    IN  IF assess_trust_foundation(p1, p2)
        THEN [r2 EXCEPT !.isRelatedParty = TRUE,
                        !.specialCases = Append(@, "Trust/Foundation relationship")]
        ELSE r2

\* the three special entity checks, in source order
special_entity_checks(r, p1, p2) ==
    LET r1 == IF assess_permanent_establishment(p1, p2)
              THEN [r EXCEPT !.isRelatedParty = TRUE,
                             !.specialCases = Append(@, "Permanent Establishment relationship")]
              ELSE r
        r2 == IF assess_partnership(p1, p2)
              THEN [r1 EXCEPT !.isRelatedParty = TRUE,
                              !.specialCases = Append(@, "Partnership relationship")]
              ELSE r1
    IN  IF assess_trust_foundation(p1, p2)
        THEN [r2 EXCEPT !.isRelatedParty = TRUE,
                        !.specialCases = Append(@, "Trust/Foundation relationship")]
        ELSE r2

\* max(a, b) on integers
Max(a, b) == IF b > a THEN b ELSE a

risk_data(p1, p2) ==
    [ crossBorder |-> Get(p1, "crossBorder", FALSE) \/ Get(p2, "crossBorder", FALSE),
      highValueTransactions |-> \/ Get(p1, "highValueTransactions", FALSE)
                                \/ Get(p2, "highValueTransactions", FALSE),
      layersOfOwnership |-> Max(Get(p1, "layersOfOwnership", 1),
                                Get(p2, "layersOfOwnership", 1)) ]

\* risk analysis, then documentation from party1 and the result so far
risk_and_documentation(r, p1, p2) ==
    LET risk_assessment == analyze_risk(risk_data(p1, p2))
        r1 == [r EXCEPT !.riskAssessment = risk_assessment]
        doc_req == determine_requirements(p1, r1, risk_assessment)
    IN  [r1 EXCEPT !.documentationRequired = doc_req]

\* variant: risk and documentation are derived before the special entity checks
TP_assess_relationship_documentation_first(p1, p2) ==
    special_entity_checks(
        risk_and_documentation(dispatch(InitialResult, p1, p2), p1, p2), p1, p2)


TP_assess_relationship(p1, p2) ==
    risk_and_documentation(
        special_entity_checks(dispatch(InitialResult, p1, p2), p1, p2), p1, p2)

-----------------------------------------------------------------------------
(* Input records *)

\* a key that is either absent or present with one of the values
Opt(k, values) == {EmptyDict} \cup {k :> v : v \in values}

\* all merges of one record from each set (the key sets are disjoint)
Cross(A, B) == {a @@ b : a \in A, b \in B}

S_individual == <<"i","n","d","i","v","i","d","u","a","l">>
S_Corporate == <<"C","o","r","p","o","r","a","t","e">>
S_permanent_establishment ==
    <<"p","e","r","m","a","n","e","n","t","_",
      "e","s","t","a","b","l","i","s","h","m","e","n","t">>
S_BRANCH == <<"B","R","A","N","C","H">>

TypeStrings ==
    { S_INDIVIDUAL, S_CORPORATE, S_PERMANENT_ESTABLISHMENT,
      S_individual, S_Corporate, S_permanent_establishment, S_BRANCH, S_EMPTY }

CompanyTypes == {"Partnership", "Trust", "Foundation", "LLC"}

\* the labels of family_degrees, the empty label and an unlisted one
KinshipLabels ==
    { FAMILY_DEGREES[d].relations[i] :
          <<d, i>> \in {x \in (1..4) \X (1..6) : x[2] <= Len(FAMILY_DEGREES[x[1]].relations)} }
Labels == KinshipLabels \cup {"", "second_cousin"}

Layers == 1..MaxLayers

TypeIs(t) == {"type" :> t}

\* ownership / control / management figures of a company
OwnershipDicts ==
    { ("direct" :> 25) @@ ("indirect" :> 25),
      ("direct" :> 25) @@ ("indirect" :> 24),
      ("indirect" :> 50) }
CorporateFields ==
    Cross(Opt("ownership", OwnershipDicts),
    Cross(Opt("votingRights", {49, 50}),
    Cross(Opt("profitEntitlement", {50}),
          Opt("managementControl", {50}))))

\* role and shareholding fields of a person
PersonFields ==
    Cross(Opt("isDirector", {TRUE}),
    Cross(Opt("isOfficer", {TRUE}),
    Cross(Opt("personalOwnership", {25, 50}),
          Opt("familyOwnership", {25}))))

RiskFields ==
    Cross(Opt("crossBorder", {FALSE, TRUE}),
    Cross(Opt("highValueTransactions", {TRUE}),
          Opt("layersOfOwnership", Layers)))

RevenueFields ==
    Cross(Opt("revenue", {Amt(199, 999999), Amt(200, 0)}),
          Opt("groupConsolidatedRevenue", {Amt(3149, 999999), Amt(3150, 0)}))

\* every pair of type strings and company types
DispatchInputs ==
    Cross(Opt("type", TypeStrings), Cross(Opt("companyType", CompanyTypes),
                                          Opt("crossBorder", {TRUE})))
    \X Cross(Opt("type", TypeStrings), Opt("companyType", CompanyTypes))

\* two individuals with every pair of kinship labels
FamilyInputs ==
    Cross(TypeIs(S_INDIVIDUAL) \cup TypeIs(S_individual),
          Cross(Opt("relationship_type", Labels), Opt("companyType", {"Trust"})))
    \X Cross(TypeIs(S_INDIVIDUAL), Opt("relationship_type", Labels))

\* companies and individuals carrying corporate figures
CorporateInputs ==
    UNION { Cross(TypeIs(tt[1]), CorporateFields)
            \X Cross(TypeIs(tt[2]), Cross(CorporateFields, Opt("companyType", {"Partnership"})))
          : tt \in { <<S_CORPORATE, S_CORPORATE>>,
                     <<S_INDIVIDUAL, S_CORPORATE>>,
                     <<S_CORPORATE, S_INDIVIDUAL>> } }

\* companies and individuals carrying person fields, with some corporate figures
ConnectedInputs ==
    UNION { Cross(TypeIs(t1), Cross(PersonFields, Opt("ownership", {("direct" :> 50)})))
            \X Cross(TypeIs(t2), Cross(PersonFields, Opt("votingRights", {50})))
          : <<t1, t2>> \in {S_INDIVIDUAL, S_CORPORATE} \X {S_INDIVIDUAL, S_CORPORATE} }

RiskInputs ==
    UNION { Cross(TypeIs(tt[1]), RiskFields) \X Cross(TypeIs(tt[2]), RiskFields)
          : tt \in { <<S_CORPORATE, S_CORPORATE>>, <<S_INDIVIDUAL, S_BRANCH>> } }

RevenueInputs ==
    UNION { Cross(TypeIs(tt[1]), Cross(RevenueFields, Opt("highValueTransactions", {TRUE})))
            \X Cross(TypeIs(tt[2]), RevenueFields)
          : tt \in { <<S_CORPORATE, S_CORPORATE>>, <<S_INDIVIDUAL, S_CORPORATE>>,
                     <<S_CORPORATE, S_PERMANENT_ESTABLISHMENT>>, <<S_BRANCH, S_EMPTY>> } }

S_corporate == <<"c","o","r","p","o","r","a","t","e">>

\* a kinship label, a role, an ownership stake and a management figure
MixedFields ==
    Cross(Opt("relationship_type", {"sibling"}),
    Cross(Opt("isDirector", {TRUE}),
    Cross(Opt("ownership", {("direct" :> 50)}),
          Opt("managementControl", {50}))))

\* pairs of types in other letter cases, and pairs no branch matches
OtherTypePairs ==
    { <<S_corporate, S_corporate>>, <<S_individual, S_Corporate>>,
      <<S_Corporate, S_individual>>, <<S_individual, S_individual>>,
      <<S_corporate, S_permanent_establishment>>,
      <<S_Corporate, S_PERMANENT_ESTABLISHMENT>>,
      <<S_CORPORATE, S_PERMANENT_ESTABLISHMENT>>,
      <<S_PERMANENT_ESTABLISHMENT, S_CORPORATE>>,
      <<S_PERMANENT_ESTABLISHMENT, S_INDIVIDUAL>>,
      <<S_INDIVIDUAL, S_BRANCH>>,
      <<S_BRANCH, S_CORPORATE>>,
      <<S_EMPTY, S_EMPTY>> }

\* the pairs above, and pairs with no type, carrying fields of every analyzer
OtherTypeInputs ==
    UNION { Cross(TypeIs(tt[1]), Cross(MixedFields, Opt("companyType", {"Trust"})))
            \X Cross(TypeIs(tt[2]), MixedFields)
          : tt \in OtherTypePairs }
    \cup (MixedFields \X Cross(Opt("type", {S_INDIVIDUAL, S_CORPORATE}), MixedFields))

Inputs ==
    DispatchInputs \cup FamilyInputs \cup CorporateInputs
        \cup ConnectedInputs \cup RiskInputs \cup RevenueInputs
        \cup OtherTypeInputs

-----------------------------------------------------------------------------
(* State machine *)

Init ==
    /\ \E pp \in Inputs : party1 = pp[1] /\ party2 = pp[2]
    /\ result = EmptyDict
    /\ CONFIG = CONFIG_DICT
    /\ family_degrees = FAMILY_DEGREES
    /\ assessors = 1
    /\ calls = 0

\* assessor = TPRelationshipAssessor()
Construct ==
    /\ assessors < MaxAssessors
    /\ assessors' = assessors + 1
    /\ family_degrees' = FAMILY_DEGREES
    /\ UNCHANGED <<party1, party2, result, CONFIG, calls>>

\* assessment_result = assessor.assess_relationship(party1, party2)
Assess ==
    /\ calls < MaxCalls
    /\ result' = TP_assess_relationship(party1, party2)
    /\ calls' = calls + 1
    /\ UNCHANGED <<party1, party2, CONFIG, family_degrees, assessors>>

Next == Construct \/ Assess

Spec == Init /\ [][Next]_vars

-----------------------------------------------------------------------------
(* Vocabulary of the properties *)

Returned == calls > 0

TypeOf(p) == Get(p, "type", S_EMPTY)
CompanyTypeOf(p) == Get(p, "companyType", "")
LabelOf(p) == Get(p, "relationship_type", "")

BothCorporate == TypeOf(party1) = S_CORPORATE /\ TypeOf(party2) = S_CORPORATE
BothIndividual == TypeOf(party1) = S_INDIVIDUAL /\ TypeOf(party2) = S_INDIVIDUAL
IndividualCorporate ==
    \/ TypeOf(party1) = S_INDIVIDUAL /\ TypeOf(party2) = S_CORPORATE
    \/ TypeOf(party1) = S_CORPORATE /\ TypeOf(party2) = S_INDIVIDUAL
TheIndividual == IF TypeOf(party1) = S_INDIVIDUAL THEN party1 ELSE party2
TheCorporate == IF TypeOf(party1) = S_INDIVIDUAL THEN party2 ELSE party1

TotalOwnership(p) ==
    Get(Get(p, "ownership", EmptyDict), "direct", 0)
        + Get(Get(p, "ownership", EmptyDict), "indirect", 0)

\* some ownership, voting, profit or management figure of the party is >= 50
CorporateFigureReached(p) ==
    \/ TotalOwnership(p) >= 50
    \/ Get(p, "votingRights", 0) >= 50
    \/ Get(p, "profitEntitlement", 0) >= 50
    \/ Get(p, "managementControl", 0) >= 50

AllCorporateFiguresZero(p) ==
    /\ TotalOwnership(p) = 0
    /\ Get(p, "votingRights", 0) = 0
    /\ Get(p, "profitEntitlement", 0) = 0
    /\ Get(p, "managementControl", 0) = 0

PermanentEstablishmentHolds ==
    TypeOf(party1) = S_CORPORATE /\ TypeOf(party2) = S_PERMANENT_ESTABLISHMENT
PartnershipHolds ==
    CompanyTypeOf(party1) = "Partnership" /\ CompanyTypeOf(party2) = "Partnership"
TrustFoundationHolds ==
    \/ CompanyTypeOf(party1) \in {"Trust", "Foundation"}
    \/ CompanyTypeOf(party2) \in {"Trust", "Foundation"}

DegreeLabels ==
    { "parent", "child", "spouse_parent", "spouse_child",
      "grandparent", "grandchild", "sibling", "spouse_sibling",
      "great_grandparent", "great_grandchild", "uncle", "aunt", "niece", "nephew",
      "great_great_grandparent", "great_great_grandchild", "first_cousin" }

\* the record carries nothing but a type and a relationship label
OtherwiseEmpty(p) == DOMAIN p \subseteq {"type", "relationship_type"}

AnyCrossBorder == Get(party1, "crossBorder", FALSE) \/ Get(party2, "crossBorder", FALSE)
AnyHighValue ==
    Get(party1, "highValueTransactions", FALSE) \/ Get(party2, "highValueTransactions", FALSE)
MaxLayersOfPair ==
    LET l1 == Get(party1, "layersOfOwnership", 1)
        l2 == Get(party2, "layersOfOwnership", 1)
    IN  IF l1 >= l2 THEN l1 ELSE l2

PersonTestHolds(p) ==
    \/ Get(p, "isDirector", FALSE)
    \/ Get(p, "isOfficer", FALSE)
    \/ Get(p, "personalOwnership", 0) + Get(p, "familyOwnership", 0) >= 50

-----------------------------------------------------------------------------
(* C1 *)

\* C1 as stated: for two CORPORATE parties, whatever their other fields,
\* isRelatedParty is true iff some ownership / voting / profit / management
\* figure of either party is >= 50, and is false when all figures are 0.
C1_AsStated ==
    (Returned /\ BothCorporate) =>
        /\ result.isRelatedParty
               <=> (CorporateFigureReached(party1) \/ CorporateFigureReached(party2))
        /\ (AllCorporateFiguresZero(party1) /\ AllCorporateFiguresZero(party2))
               => ~result.isRelatedParty

\* C1 amended: for two CORPORATE parties, isRelatedParty is true iff some
\* ownership / voting / profit / management figure of either party is >= 50,
\* or the partnership predicate or the trust/foundation predicate holds; with
\* all figures 0 it is false unless one of those two predicates holds.
C1_CorporateRelatedIff ==
    (Returned /\ BothCorporate) =>
        /\ result.isRelatedParty
               <=> \/ CorporateFigureReached(party1)
                   \/ CorporateFigureReached(party2)
                   \/ PartnershipHolds
                   \/ TrustFoundationHolds
        /\ ( /\ AllCorporateFiguresZero(party1)
             /\ AllCorporateFiguresZero(party2)
             /\ ~PartnershipHolds /\ ~TrustFoundationHolds )
               => ~result.isRelatedParty

\* two companies, related only through the second one's 25 + 25 ownership
C1_Witness ==
    /\ Returned /\ BothCorporate
    /\ ~CorporateFigureReached(party1)
    /\ TotalOwnership(party2) = 50
    /\ Get(party2, "votingRights", 0) < 50
    /\ ~PartnershipHolds /\ ~TrustFoundationHolds
    /\ result.isRelatedParty

-----------------------------------------------------------------------------
(* C2 *)

\* C2: for two INDIVIDUAL parties carrying nothing but a relationship label,
\* isRelatedParty is true exactly when party1's label is a kinship label of
\* degree 1 to 4 (so false for the empty and for unlisted labels), whatever
\* party2's label is.
C2_FamilyByParty1Label ==
    (Returned /\ BothIndividual /\ OtherwiseEmpty(party1) /\ OtherwiseEmpty(party2)) =>
        (result.isRelatedParty <=> LabelOf(party1) \in DegreeLabels)

\* a pair whose outcome changes when the two parties are swapped
C2_Witness ==
    /\ Returned /\ BothIndividual
    /\ OtherwiseEmpty(party1) /\ OtherwiseEmpty(party2)
    /\ LabelOf(party1) = "first_cousin"
    /\ LabelOf(party2) = "second_cousin"
    /\ result.isRelatedParty
    /\ ~TP_assess_relationship(party2, party1).isRelatedParty

-----------------------------------------------------------------------------
(* C3 *)

\* C3: riskLevel is HIGH iff crossBorder or highValueTransactions (each the OR
\* over both parties) or the larger layersOfOwnership is > 3; MEDIUM iff the
\* larger layersOfOwnership is 3 and both flags are false; LOW iff it is <= 2
\* and both flags are false; the level is always one of the three.
C3_RiskLevel ==
    Returned =>
        LET level == result.riskAssessment.riskLevel
        IN  /\ level \in {"HIGH", "MEDIUM", "LOW"}
            /\ level = "HIGH" <=> (AnyCrossBorder \/ AnyHighValue \/ MaxLayersOfPair > 3)
            /\ level = "MEDIUM" <=> (MaxLayersOfPair = 3 /\ ~AnyCrossBorder /\ ~AnyHighValue)
            /\ level = "LOW" <=> (MaxLayersOfPair <= 2 /\ ~AnyCrossBorder /\ ~AnyHighValue)

\* MEDIUM through the second party's three layers only
C3_Witness ==
    /\ Returned
    /\ Get(party1, "layersOfOwnership", 1) = 1
    /\ Get(party2, "layersOfOwnership", 1) = 3
    /\ "crossBorder" \in DOMAIN party1 /\ ~party1["crossBorder"]
    /\ result.riskAssessment.riskLevel = "MEDIUM"

-----------------------------------------------------------------------------
(* C4 *)

\* C4: for one INDIVIDUAL and one CORPORATE party in either order,
\* isConnectedPerson is true iff the individual is a director, or an officer,
\* or has personalOwnership + familyOwnership >= 50; the company's fields do
\* not matter, and swapping the parties gives the same isConnectedPerson.
C4_ConnectedByIndividual ==
    (Returned /\ IndividualCorporate) =>
        /\ result.isConnectedPerson <=> PersonTestHolds(TheIndividual)
        /\ TP_assess_relationship(party2, party1).isConnectedPerson
               = result.isConnectedPerson

\* the company comes first and is flagged as a director; the individual is not
\* a director and is connected through 25 + 25 ownership
C4_Witness ==
    /\ Returned
    /\ TypeOf(party1) = S_CORPORATE /\ TypeOf(party2) = S_INDIVIDUAL
    /\ Get(party1, "isDirector", FALSE)
    /\ ~Get(party2, "isDirector", FALSE) /\ ~Get(party2, "isOfficer", FALSE)
    /\ Get(party2, "personalOwnership", 0) = 25
    /\ Get(party2, "familyOwnership", 0) = 25
    /\ result.isConnectedPerson

-----------------------------------------------------------------------------
(* C5 *)

ExpectedSpecialCases ==
    AppendIf(
        AppendIf(
            AppendIf(<< >>, PermanentEstablishmentHolds,
                     "Permanent Establishment relationship"),
            PartnershipHolds, "Partnership relationship"),
        TrustFoundationHolds, "Trust/Foundation relationship")

\* C5: specialCases lists, in the order Permanent Establishment, Partnership,
\* Trust/Foundation, exactly the labels of the predicates that hold (permanent
\* establishment: party1 CORPORATE and party2 PERMANENT_ESTABLISHMENT, in that
\* order only; partnership: both companyType Partnership; trust/foundation:
\* either companyType Trust or Foundation); a non-empty specialCases implies
\* isRelatedParty.
C5_SpecialCases ==
    Returned =>
        /\ result.specialCases = ExpectedSpecialCases
        /\ result.specialCases # << >> => result.isRelatedParty

\* two predicates fire together, in the fixed order
C5_Witness ==
    /\ Returned
    /\ result.specialCases = << "Permanent Establishment relationship",
                                "Trust/Foundation relationship" >>
    /\ CompanyTypeOf(party1) = "LLC"
    /\ CompanyTypeOf(party2) = "Foundation"

\* the reverse order of types yields no special case
C5_WitnessReverse ==
    /\ Returned
    /\ TypeOf(party1) = S_PERMANENT_ESTABLISHMENT /\ TypeOf(party2) = S_CORPORATE
    /\ result.specialCases = << >>
    /\ ~result.isRelatedParty

-----------------------------------------------------------------------------
(* C6 *)

\* C6: localFile is true iff party1's revenue (0 when absent) is
\* >= 200,000,000 and masterFile is true iff party1's groupConsolidatedRevenue
\* (0 when absent) is >= 3,150,000,000; party2's figures play no part.
C6_FilesFromParty1 ==
    Returned =>
        /\ result.documentationRequired.localFile
               <=> AmtGE(Get(party1, "revenue", Amt(0, 0)), Amt(200, 0))
        /\ result.documentationRequired.masterFile
               <=> AmtGE(Get(party1, "groupConsolidatedRevenue", Amt(0, 0)), Amt(3150, 0))

\* party1 sits exactly on the revenue threshold and one below the group
\* threshold, while party2 is below the former and on the latter
C6_Witness ==
    /\ Returned
    /\ Get(party1, "revenue", Amt(0, 0)) = Amt(200, 0)
    /\ Get(party1, "groupConsolidatedRevenue", Amt(0, 0)) = Amt(3149, 999999)
    /\ Get(party2, "revenue", Amt(0, 0)) = Amt(199, 999999)
    /\ Get(party2, "groupConsolidatedRevenue", Amt(0, 0)) = Amt(3150, 0)
    /\ result.documentationRequired.localFile
    /\ ~result.documentationRequired.masterFile

-----------------------------------------------------------------------------
(* C7 *)

\* C7: in every returned result disclosureForm equals the final isRelatedParty
\* flag, and additionalDocs is the one-element list "Detailed Intercompany
\* Agreement Documentation" when riskLevel is HIGH and empty otherwise.
C7_DisclosureAndAdditionalDocs ==
    Returned =>
        /\ result.documentationRequired.disclosureForm = result.isRelatedParty
        /\ result.documentationRequired.additionalDocs
               = IF result.riskAssessment.riskLevel = "HIGH"
                 THEN << "Detailed Intercompany Agreement Documentation" >>
                 ELSE << >>

\* related through a special entity predicate only, at HIGH risk
C7_Witness ==
    /\ Returned
    /\ result.basis = << >>
    /\ result.specialCases # << >>
    /\ result.isRelatedParty
    /\ result.documentationRequired.disclosureForm
    /\ result.riskAssessment.riskLevel = "HIGH"
    /\ Len(result.documentationRequired.additionalDocs) = 1

-----------------------------------------------------------------------------
(* C8 *)

\* the record carries at most a type
Partial(p) == DOMAIN p \subseteq {"type"}

\* all six fields of the result are populated
CompleteResult ==
    /\ DOMAIN result = { "isRelatedParty", "isConnectedPerson", "basis",
                         "specialCases", "riskAssessment", "documentationRequired" }
    /\ DOMAIN result.riskAssessment = {"riskLevel", "factors"}
    /\ DOMAIN result.documentationRequired
           = {"masterFile", "localFile", "disclosureForm", "additionalDocs"}

NothingBesidesRelated ==
    /\ CompleteResult
    /\ ~result.isConnectedPerson
    /\ result.basis = << >>
    /\ result.riskAssessment.riskLevel = "LOW"
    /\ ~result.documentationRequired.masterFile
    /\ ~result.documentationRequired.localFile
    /\ result.documentationRequired.additionalDocs = << >>

\* C8 as stated: for two records carrying at most a type, the call returns a
\* complete result that is not related, not connected, LOW risk and requires
\* no documentation.
C8_AsStated ==
    (Returned /\ Partial(party1) /\ Partial(party2)) =>
        /\ NothingBesidesRelated
        /\ ~result.isRelatedParty
        /\ ~result.documentationRequired.disclosureForm

\* C8 amended: for two records carrying at most a type, the call returns a
\* complete result that is not connected, LOW risk, with masterFile and
\* localFile false and additionalDocs empty; it is not related and needs no
\* disclosure form, except when party1's type is exactly CORPORATE and party2's
\* is exactly PERMANENT_ESTABLISHMENT, where isRelatedParty and disclosureForm
\* are true and specialCases holds the permanent establishment label.
C8_PartialRecords ==
    (Returned /\ Partial(party1) /\ Partial(party2)) =>
        /\ NothingBesidesRelated
        /\ IF PermanentEstablishmentHolds
           THEN /\ result.isRelatedParty
                /\ result.documentationRequired.disclosureForm
                /\ result.specialCases = << "Permanent Establishment relationship" >>
           ELSE /\ ~result.isRelatedParty
                /\ ~result.documentationRequired.disclosureForm
                /\ result.specialCases = << >>

\* an unrecognized type against a record with no type at all
C8_Witness ==
    /\ Returned
    /\ party1 = ("type" :> S_BRANCH)
    /\ party2 = EmptyDict
    /\ CompleteResult
    /\ ~result.isRelatedParty
    /\ result.riskAssessment.riskLevel = "LOW"

\* the excepted pair
C8_WitnessEstablishment ==
    /\ Returned
    /\ party1 = ("type" :> S_CORPORATE)
    /\ party2 = ("type" :> S_PERMANENT_ESTABLISHMENT)
    /\ result.isRelatedParty

-----------------------------------------------------------------------------
(* C9 *)

-----------------------------------------------------------------------------
(* C10 *)

PersonTestCount(p) ==
    (IF Get(p, "isDirector", FALSE) THEN 1 ELSE 0)
        + (IF Get(p, "isOfficer", FALSE) THEN 1 ELSE 0)
        + (IF Get(p, "personalOwnership", 0) + Get(p, "familyOwnership", 0) >= 50
           THEN 1 ELSE 0)

\* the corporate analyzer left no trace in the result
CorporateAnalyzerNoOp ==
    /\ Len(result.basis) = PersonTestCount(TheIndividual)
    /\ result.isRelatedParty => result.specialCases # << >>

\* C10 as stated: for one INDIVIDUAL and one CORPORATE party, the corporate
\* analyzer run on the raw pair always yields "not related", never sets
\* isRelatedParty and never contributes a basis string.
C10_AsStated ==
    (Returned /\ IndividualCorporate) =>
        /\ ~Corporate_assess_relationship(party1, party2).isRelatedParty
        /\ CorporateAnalyzerNoOp

\* C10 amended: for one INDIVIDUAL and one CORPORATE party, the corporate
\* analyzer run on the raw pair yields "not related", and then neither sets
\* isRelatedParty nor contributes a basis string, exactly when every
\* ownership / voting / profit / management figure of both parties is below
\* 50 (as when those fields are absent); when one of them is >= 50 it sets
\* isRelatedParty and contributes its basis strings ahead of the connected
\* person ones.
C10_CorporateAnalyzerInMixedPair ==
    (Returned /\ IndividualCorporate) =>
        LET reached == CorporateFigureReached(party1) \/ CorporateFigureReached(party2)
        IN  /\ Corporate_assess_relationship(party1, party2).isRelatedParty <=> reached
            /\ ~reached => CorporateAnalyzerNoOp
            /\ reached => /\ result.isRelatedParty
                          /\ Len(result.basis) > PersonTestCount(TheIndividual)
                          /\ result.basis[1] \in
                                 { "Ownership >= 50%",
                                   "Control through voting rights or profit entitlement >= 50%",
                                   "Management control >= 50%" }

\* an individual with no figures against a company with management control 50
C10_Witness ==
    /\ Returned
    /\ party1 = ("type" :> S_INDIVIDUAL)
    /\ TypeOf(party2) = S_CORPORATE
    /\ Get(party2, "managementControl", 0) = 50
    /\ DOMAIN party2 = {"type", "managementControl"}
    /\ result.isRelatedParty
    /\ result.basis = << "Management control >= 50%" >>

\* the same pair of types with no figure reached: the analyzer is a no-op
C10_WitnessNoOp ==
    /\ Returned /\ IndividualCorporate
    /\ ~CorporateFigureReached(party1) /\ ~CorporateFigureReached(party2)
    /\ result.isConnectedPerson
    /\ ~result.isRelatedParty

-----------------------------------------------------------------------------
(* C11 *)

UpperTypeOf(p) == Upper(TypeOf(p))

FamilyBranch == UpperTypeOf(party1) = S_INDIVIDUAL /\ UpperTypeOf(party2) = S_INDIVIDUAL
CorporateBranch == UpperTypeOf(party1) = S_CORPORATE /\ UpperTypeOf(party2) = S_CORPORATE
MixedBranch ==
    \/ UpperTypeOf(party1) = S_INDIVIDUAL /\ UpperTypeOf(party2) = S_CORPORATE
    \/ UpperTypeOf(party1) = S_CORPORATE /\ UpperTypeOf(party2) = S_INDIVIDUAL
NoBranch == ~FamilyBranch /\ ~CorporateBranch /\ ~MixedBranch

\* C11: when the upper-cased types match none of Individual/Individual,
\* Corporate/Corporate, Individual/Corporate, Corporate/Individual, no family,
\* corporate or connected person test runs: basis is empty, isConnectedPerson
\* is false, isRelatedParty is true iff a special entity predicate holds, and
\* the call still returns a complete result with risk and documentation.
C11_NoBranch ==
    (Returned /\ NoBranch) =>
        /\ result.basis = << >>
        /\ ~result.isConnectedPerson
        /\ result.isRelatedParty
               <=> (PermanentEstablishmentHolds \/ PartnershipHolds \/ TrustFoundationHolds)
        /\ CompleteResult
        /\ result.riskAssessment.riskLevel \in {"HIGH", "MEDIUM", "LOW"}

\* a permanent establishment that is a director with 50% ownership, against an
\* individual: every analyzer's trigger is present and none runs
C11_Witness ==
    /\ Returned
    /\ TypeOf(party1) = S_PERMANENT_ESTABLISHMENT /\ TypeOf(party2) = S_INDIVIDUAL
    /\ LabelOf(party1) = "sibling"
    /\ Get(party1, "isDirector", FALSE) /\ Get(party2, "isDirector", FALSE)
    /\ TotalOwnership(party1) = 50
    /\ Get(party2, "managementControl", 0) = 50
    /\ result.basis = << >>
    /\ ~result.isRelatedParty /\ ~result.isConnectedPerson

\* a company against its permanent establishment: related by the special rule only
C11_WitnessEstablishment ==
    /\ Returned
    /\ PermanentEstablishmentHolds
    /\ TotalOwnership(party1) = 50
    /\ result.basis = << >>
    /\ result.isRelatedParty
    /\ result.specialCases = << "Permanent Establishment relationship" >>

-----------------------------------------------------------------------------
(* C12 *)

\* the triggered corporate sub-tests: ownership, control, management
ExpectedCorporateBasis ==
    AppendIf(
        AppendIf(
            AppendIf(<< >>,
                     TotalOwnership(party1) >= 50 \/ TotalOwnership(party2) >= 50,
                     "Ownership >= 50%"),
            \/ Get(party1, "votingRights", 0) >= 50
            \/ Get(party2, "votingRights", 0) >= 50
            \/ Get(party1, "profitEntitlement", 0) >= 50
            \/ Get(party2, "profitEntitlement", 0) >= 50,
            "Control through voting rights or profit entitlement >= 50%"),
        Get(party1, "managementControl", 0) >= 50
            \/ Get(party2, "managementControl", 0) >= 50,
        "Management control >= 50%")

\* the triggered connected person tests: director, officer, ownership
ExpectedConnectedBasis(p) ==
    AppendIf(
        AppendIf(
            AppendIf(<< >>, Get(p, "isDirector", FALSE), "Director relationship"),
            Get(p, "isOfficer", FALSE), "Officer relationship"),
        Get(p, "personalOwnership", 0) + Get(p, "familyOwnership", 0) >= 50,
        "Ownership >= 50%")

DegreeOfLabel(label) ==
    IF label \in {"parent", "child", "spouse_parent", "spouse_child"} THEN "1"
    ELSE IF label \in {"grandparent", "grandchild", "sibling", "spouse_sibling"} THEN "2"
    ELSE IF label \in {"great_grandparent", "great_grandchild",
                       "uncle", "aunt", "niece", "nephew"} THEN "3"
    ELSE "4"

ExpectedFamilyBasis ==
    IF LabelOf(party1) \in DegreeLabels
    THEN << "Family relationship - " \o DegreeOfLabel(LabelOf(party1)) \o " degree" >>
    ELSE << >>

\* the party whose upper-cased type is INDIVIDUAL
BranchIndividual == IF UpperTypeOf(party1) = S_INDIVIDUAL THEN party1 ELSE party2

\* C12: basis holds exactly the triggered basis strings, in a fixed order and
\* without empty strings: Corporate/Corporate gives the triggered sub-tests
\* among ownership, control, management in that order; Individual/Corporate in
\* either order gives those first and then the triggered connected person tests
\* in the order director, officer, ownership; Individual/Individual gives the
\* single string "Family relationship - <d> degree" when related, else nothing.
C12_BasisOrder ==
    Returned =>
        /\ CorporateBranch => result.basis = ExpectedCorporateBasis
        /\ MixedBranch =>
               result.basis = ExpectedCorporateBasis \o ExpectedConnectedBasis(BranchIndividual)
        /\ FamilyBranch => result.basis = ExpectedFamilyBasis
        /\ \A i \in 1..Len(result.basis) : result.basis[i] # ""

\* an individual and a company with the ownership string at both ends
C12_Witness ==
    /\ Returned
    /\ TypeOf(party1) = S_INDIVIDUAL /\ TypeOf(party2) = S_CORPORATE
    /\ result.basis = << "Ownership >= 50%",
                         "Control through voting rights or profit entitlement >= 50%",
                         "Director relationship",
                         "Officer relationship",
                         "Ownership >= 50%" >>

\* two companies with all three sub-tests triggered
C12_WitnessCorporate ==
    /\ Returned /\ BothCorporate
    /\ result.basis = << "Ownership >= 50%",
                         "Control through voting rights or profit entitlement >= 50%",
                         "Management control >= 50%" >>

\* two individuals of the third degree
C12_WitnessFamily ==
    /\ Returned /\ BothIndividual
    /\ LabelOf(party1) = "nephew"
    /\ result.basis = << "Family relationship - 3 degree" >>

-----------------------------------------------------------------------------
(* C13 *)

FamilyBasisStrings ==
    { "Family relationship - 1 degree", "Family relationship - 2 degree",
      "Family relationship - 3 degree", "Family relationship - 4 degree" }
CorporateBasisStrings ==
    { "Ownership >= 50%",
      "Control through voting rights or profit entitlement >= 50%",
      "Management control >= 50%" }
ConnectedBasisStrings ==
    { "Director relationship", "Officer relationship", "Ownership >= 50%" }

BasisHasOneOf(strings) == \E i \in 1..Len(result.basis) : result.basis[i] \in strings

\* C13: a flag is set iff there is a justification: isRelatedParty or
\* isConnectedPerson holds iff basis or specialCases is non-empty;
\* isRelatedParty implies a family or corporate basis string in basis or a
\* non-empty specialCases; isConnectedPerson implies a director, officer or
\* ownership string in basis and a pair that the dispatch takes as one
\* INDIVIDUAL with one CORPORATE party.
C13_FlagsJustified ==
    Returned =>
        /\ (result.isRelatedParty \/ result.isConnectedPerson)
               <=> (result.basis # << >> \/ result.specialCases # << >>)
        /\ result.isRelatedParty
               => \/ BasisHasOneOf(FamilyBasisStrings \cup CorporateBasisStrings)
                  \/ result.specialCases # << >>
        /\ result.isConnectedPerson
               => BasisHasOneOf(ConnectedBasisStrings) /\ MixedBranch

\* related through management control alone, with no special case
C13_Witness ==
    /\ Returned
    /\ result.isRelatedParty
    /\ ~result.isConnectedPerson
    /\ result.specialCases = << >>
    /\ result.basis = << "Management control >= 50%" >>

\* connected without being related
C13_WitnessConnected ==
    /\ Returned
    /\ result.isConnectedPerson
    /\ ~result.isRelatedParty
    /\ result.basis = << "Director relationship" >>
    /\ result.specialCases = << >>

-----------------------------------------------------------------------------
(* C14 *)

\* the same record with its type, when present, in upper case
UpperTyped(p) == IF "type" \in DOMAIN p THEN [p EXCEPT !["type"] = Upper(@)] ELSE p

PermanentEstablishmentLabel == "Permanent Establishment relationship"

\* the types are CORPORATE / PERMANENT_ESTABLISHMENT up to letter case only
EstablishmentInOtherCase ==
    /\ UpperTypeOf(party1) = S_CORPORATE
    /\ UpperTypeOf(party2) = S_PERMANENT_ESTABLISHMENT
    /\ ~PermanentEstablishmentHolds

\* C14: the branch taken depends on the upper-cased types only, so a pair
\* yields the basis and isConnectedPerson of its upper-case form; the permanent
\* establishment label is present iff the types are exactly CORPORATE and
\* PERMANENT_ESTABLISHMENT; a pair with those types in another letter case has
\* no such label, although its upper-case form has it, and is related only
\* through the partnership or trust/foundation predicate.
C14_TypeMatching ==
    Returned =>
        LET upperForm == TP_assess_relationship(UpperTyped(party1), UpperTyped(party2))
        IN  /\ result.basis = upperForm.basis
            /\ result.isConnectedPerson = upperForm.isConnectedPerson
            /\ InList(PermanentEstablishmentLabel, result.specialCases)
                   <=> PermanentEstablishmentHolds
            /\ EstablishmentInOtherCase =>
                   /\ ~InList(PermanentEstablishmentLabel, result.specialCases)
                   /\ InList(PermanentEstablishmentLabel, upperForm.specialCases)
                   /\ result.isRelatedParty <=> (PartnershipHolds \/ TrustFoundationHolds)
            /\ ~EstablishmentInOtherCase =>
                   result.isRelatedParty = upperForm.isRelatedParty

\* corporate / permanent_establishment in lower case: no special case, not related
C14_Witness ==
    /\ Returned
    /\ TypeOf(party1) = S_corporate
    /\ TypeOf(party2) = S_permanent_establishment
    /\ TotalOwnership(party1) = 50
    /\ result.specialCases = << >>
    /\ ~result.isRelatedParty

\* individual / Corporate runs the tests of the mixed branch
C14_WitnessMixedCase ==
    /\ Returned
    /\ TypeOf(party1) = S_individual /\ TypeOf(party2) = S_Corporate
    /\ result.isConnectedPerson
    /\ result.isRelatedParty
    /\ result.basis = << "Management control >= 50%", "Director relationship" >>

\* corporate / corporate runs the corporate tests
C14_WitnessLowerCorporate ==
    /\ Returned
    /\ TypeOf(party1) = S_corporate /\ TypeOf(party2) = S_corporate
    /\ result.basis = << "Ownership >= 50%", "Management control >= 50%" >>

====
